---- MODULE Spec2Model ----
(***************************************************************************)
(* Model of the chat widget of src/floating-chat.js: the ChatState store   *)
(* (history, persistence, optimizeHistory, trimHistory, compression) and   *)
(* the UniversalChatWidget event handlers that mutate it.                  *)
(*                                                                         *)
(* A JavaScript string is modelled as a sequence of one-character strings. *)
(***************************************************************************)
EXTENDS Integers, Sequences, FiniteSets

\* ---------------------------------------------------------------------------
\* LIMITS (src/floating-chat.js:90-104)
\* ---------------------------------------------------------------------------
MAX_HISTORY_MESSAGES == 100
MAX_HISTORY_TOKENS == 4000
ALWAYS_KEEP_RECENT == 10
COMPRESSED_MSG_LENGTH == 200
USER_MSG_LENGTH == 500
CHARS_PER_TOKEN == 4
SOURCE_NAME_LENGTH == 500
SOURCE_DESC_LENGTH == 1000
SNIPPET_LENGTH == 200
MIN_CITATION_LENGTH == 15

\* ---------------------------------------------------------------------------
\* Strings
\* ---------------------------------------------------------------------------
Min(a, b) == IF a <= b THEN a ELSE b

SetMin(S) == CHOOSE x \in S : \A y \in S : x <= y

\* The value of a message whose content property is undefined (or missing).
Undefined == <<"undefined">>

\* The white space and line terminator characters that a TLA+ string cannot
\* hold, each written as its code point: VT, NBSP, the Unicode space
\* separators, LS, PS and the byte order mark.
UnicodeSpaces ==
  {"U+000B", "U+00A0", "U+1680", "U+2000", "U+2001", "U+2002", "U+2003",
   "U+2004", "U+2005", "U+2006", "U+2007", "U+2008", "U+2009", "U+200A",
   "U+2028", "U+2029", "U+202F", "U+205F", "U+3000", "U+FEFF"}

\* The characters \s matches and String.prototype.trim strips.
Whitespace == {" ", "\n", "\t", "\r", "\f"} \cup UnicodeSpaces

Digits == {"0", "1", "2", "3", "4", "5", "6", "7", "8", "9"}

Terminators == {".", "!", "?"}

MarkdownMarkers == {"#", "*", "_"}

CodeTag == <<"[", "c", "o", "d", "e", "]">>

Ellipsis == <<".", ".", ".">>

\* String.prototype.substring(0, n)
substring(s, n) == SubSeq(s, 1, Min(n, Len(s)))

\* Array.prototype.slice(-n) for n >= 1
sliceLast(h, n) == IF n >= Len(h) THEN h ELSE SubSeq(h, Len(h) - n + 1, Len(h))

\* Array.prototype.slice(0, -n) for n >= 1
sliceButLast(h, n) == IF n >= Len(h) THEN <<>> ELSE SubSeq(h, 1, Len(h) - n)

\* The characters of s at the positions outside Deleted, in order.
RemovePositions(s, Deleted) ==
  LET pairs == [i \in 1..Len(s) |-> <<i, s[i]>>]
      kept == SelectSeq(pairs, LAMBDA p : p[1] \notin Deleted)
  IN [k \in 1..Len(kept) |-> kept[k][2]]

\* The backquote character U+0060, which a TLA+ string cannot hold.
Backquote == "BACKQUOTE"

IsFence(s, i) ==
  /\ i + 2 <= Len(s)
  /\ s[i] = Backquote /\ s[i + 1] = Backquote /\ s[i + 2] = Backquote

\* content.replace of every fenced code block (three backquotes, lazily up to
\* the nearest three backquotes after them) by "[code]", left to right.
RECURSIVE replaceCodeBlocks(_)
replaceCodeBlocks(s) ==
  LET Fences == {i \in 1..Len(s) : IsFence(s, i)}
  IN IF Fences = {} THEN s
     ELSE LET open == SetMin(Fences)
              Closes == {j \in Fences : j >= open + 3}
          IN IF Closes = {} THEN s
             ELSE LET close == SetMin(Closes)
                  IN SubSeq(s, 1, open - 1) \o CodeTag
                       \o replaceCodeBlocks(SubSeq(s, close + 3, Len(s)))

\* The end of the match of /\[(\d+)\]/ that starts at i, or 0 when none does.
citationEnd(s, i) ==
  IF s[i] # "[" THEN 0
  ELSE LET e == SetMin({k \in (i + 1)..(Len(s) + 1) : k = Len(s) + 1 \/ s[k] \notin Digits})
       IN IF e <= Len(s) /\ e > i + 1 /\ s[e] = "]" THEN e ELSE 0

\* content.replace(/\[(\d+)\]/g, "")
stripCitations(s) ==
  LET Deleted == UNION {i..citationEnd(s, i) : i \in {j \in 1..Len(s) : s[j] = "["}}
  IN RemovePositions(s, Deleted)

\* content.replace(/[#*_]/g, "")
stripMarkdown(s) == SelectSeq(s, LAMBDA c : c \notin MarkdownMarkers)

\* String.prototype.trim()
trim(s) ==
  IF \A i \in 1..Len(s) : s[i] \in Whitespace THEN <<>>
  ELSE LET first == CHOOSE i \in 1..Len(s) :
                      s[i] \notin Whitespace /\ \A j \in 1..(i - 1) : s[j] \in Whitespace
           last == CHOOSE i \in 1..Len(s) :
                     s[i] \notin Whitespace /\ \A j \in (i + 1)..Len(s) : s[j] \in Whitespace
       IN SubSeq(s, first, last)

\* content.match(/^[^.!?]+[.!?]/): <<>> stands for no match.
firstSentence(s) ==
  LET Ends == {i \in 1..Len(s) : s[i] \in Terminators}
  IN IF Ends # {} /\ SetMin(Ends) >= 2 THEN SubSeq(s, 1, SetMin(Ends)) ELSE <<>>

\* ---------------------------------------------------------------------------
\* ChatState: pure helpers
\* ---------------------------------------------------------------------------
\* ChatState._estimateTokens
estimateTokens(text) ==
  IF text = Undefined \/ text = <<>> THEN 0
  ELSE (Len(text) + CHARS_PER_TOKEN - 1) \div CHARS_PER_TOKEN

\* The cleaned text of an assistant message (the local content).
cleanContent(text) == trim(stripMarkdown(stripCitations(replaceCodeBlocks(text))))

\* _compressMessage handing a user message back whole.
compressMessageUncut(message) ==
  IF message.role = "user"
  THEN [role |-> "user", content |-> message.content]
  ELSE LET content == cleanContent(message.content)
           sentence == firstSentence(content)
           compressed == IF sentence # <<>> THEN sentence
                         ELSE substring(content, COMPRESSED_MSG_LENGTH)
       IN [role |-> "assistant",
           content |-> compressed \o
                         (IF Len(compressed) < Len(content) THEN Ellipsis ELSE <<>>)]

\* ChatState._compressMessage, for a message whose content is a string.
compressMessage(message) ==
  IF message.role = "user"
  THEN [role |-> "user", content |-> substring(message.content, USER_MSG_LENGTH)]
  ELSE LET content == cleanContent(message.content)
           sentence == firstSentence(content)
           compressed == IF sentence # <<>> THEN sentence
                         ELSE substring(content, COMPRESSED_MSG_LENGTH)
       IN [role |-> "assistant",
           content |-> compressed \o
                         (IF Len(compressed) < Len(content) THEN Ellipsis ELSE <<>>)]

\* message.content.substring / .replace on a content that is not a string
\* raises a TypeError.
compressThrows(message) == message.content = Undefined

\* _compressMessage writing the compressed content back into the message.
storedAfterCompressInPlace(message) ==
  IF message.role = "user"
  THEN [role |-> "user", content |-> substring(message.content, USER_MSG_LENGTH)]
  ELSE [role |-> message.role, content |-> cleanContent(message.content)]

\* The frame effect of ChatState._compressMessage on the message object it is
\* handed: the object is only read and the result is a new object literal.
storedAfterCompress(message) == message

\* options.x || LIMITS.X: an option that is unset or 0 takes the default.
orDefault(option, default) == IF option = 0 THEN default ELSE option

\* A recent window of one message, whatever alwaysKeepRecentMessages says.
recentCountOfOne(h, options) == Min(1, Len(h))

recentCountOf(h, options) ==
  Min(orDefault(options.alwaysKeepRecentMessages, ALWAYS_KEEP_RECENT), Len(h))

sumTokens(msgs) ==
  LET RECURSIVE sum(_)
      sum(i) == IF i = 0 THEN 0 ELSE sum(i - 1) + estimateTokens(msgs[i].content)
  IN sum(Len(msgs))

\* The loop with each compressed message tested against the budget on its
\* own, not against what is left of it.
RECURSIVE optimizeLoopPerMessage(_, _, _, _, _)
optimizeLoopPerMessage(older, i, tokenCount, optimized, maxTokens) ==
  IF i < 1 THEN [threw |-> FALSE, result |-> optimized, older |-> older]
  ELSE LET compressed == compressMessage(older[i])
           compressedTokens == estimateTokens(compressed.content)
       IN IF compressedTokens <= maxTokens
          THEN optimizeLoopPerMessage(older, i - 1, tokenCount + compressedTokens,
                                      <<compressed>> \o optimized, maxTokens)
          ELSE [threw |-> FALSE, result |-> optimized, older |-> older]

\* The loop with continue in place of break: a message that does not fit is
\* skipped and the walk goes on to the older ones.
RECURSIVE optimizeLoopSkipping(_, _, _, _, _)
optimizeLoopSkipping(older, i, tokenCount, optimized, maxTokens) ==
  IF i < 1 THEN [threw |-> FALSE, result |-> optimized, older |-> older]
  ELSE LET compressed == compressMessage(older[i])
           compressedTokens == estimateTokens(compressed.content)
       IN IF tokenCount + compressedTokens <= maxTokens
          THEN optimizeLoopSkipping(older, i - 1, tokenCount + compressedTokens,
                                    <<compressed>> \o optimized, maxTokens)
          ELSE optimizeLoopSkipping(older, i - 1, tokenCount, optimized, maxTokens)

\* The loop of ChatState.optimizeHistory over olderMessages, from index i down:
\* the optimized view, whether a TypeError was raised, and the stored
\* messages as the loop leaves them.
RECURSIVE optimizeLoop(_, _, _, _, _)
optimizeLoop(older, i, tokenCount, optimized, maxTokens) ==
  IF i < 1 THEN [threw |-> FALSE, result |-> optimized, older |-> older]
  ELSE IF compressThrows(older[i])
  THEN [threw |-> TRUE, result |-> <<>>, older |-> older]
  ELSE LET compressed == compressMessage(older[i])
           compressedTokens == estimateTokens(compressed.content)
           after == [older EXCEPT ![i] = storedAfterCompress(older[i])]
       IN IF tokenCount + compressedTokens <= maxTokens
          THEN optimizeLoop(after, i - 1, tokenCount + compressedTokens,
                            <<compressed>> \o optimized, maxTokens)
          ELSE [threw |-> FALSE, result |-> optimized, older |-> after]

\* optimizeHistory without the budget test: every older message is included.
optimizeHistoryNoBudget(h, options) ==
  LET recentCount == recentCountOf(h, options)
      older == sliceButLast(h, recentCount)
  IN [threw |-> FALSE,
      result |-> [i \in 1..Len(older) |-> compressMessage(older[i])]
                   \o sliceLast(h, recentCount),
      store |-> h]

\* ChatState.optimizeHistory on the stored history h: the returned view
\* (result), whether the call raised (threw), and the stored history after
\* the call (store).
optimizeHistory(h, options) ==
  IF Len(h) = 0 THEN [threw |-> FALSE, result |-> <<>>, store |-> h]
  ELSE LET recentCount == recentCountOf(h, options)
           recentMessages == sliceLast(h, recentCount)
           olderMessages == sliceButLast(h, recentCount)
           tokenCount == sumTokens(recentMessages)
           maxTokens == orDefault(options.maxHistoryTokens, MAX_HISTORY_TOKENS)
       IN IF tokenCount < maxTokens /\ Len(olderMessages) = 0
          THEN [threw |-> FALSE, result |-> h, store |-> h]
          ELSE LET r == optimizeLoop(olderMessages, Len(olderMessages), tokenCount,
                                     recentMessages, maxTokens)
               IN [threw |-> r.threw, result |-> r.result,
                   store |-> r.older \o recentMessages]

\* trimHistory keeping the oldest entries: slice(0, maxMessages).
trimHistoryKeepOldest(h, options) ==
  LET maxMessages == orDefault(options.maxHistoryMessages, MAX_HISTORY_MESSAGES)
  IN IF Len(h) > maxMessages THEN SubSeq(h, 1, maxMessages) ELSE h

\* ChatState.trimHistory on the stored history h.
trimHistory(h, options) ==
  LET maxMessages == orDefault(options.maxHistoryMessages, MAX_HISTORY_MESSAGES)
  IN IF Len(h) > maxMessages THEN sliceLast(h, maxMessages) ELSE h

\* ---------------------------------------------------------------------------
\* Source entries: ChatValidators.validateSources
\* ---------------------------------------------------------------------------
\* A JavaScript value of a source entry: its typeof tag t (with "null" and
\* "array" told apart from "object") and, for a string or a number, its text s.
JsUndefined == [t |-> "undefined", s |-> <<>>]

JsString(s) == [t |-> "string", s |-> s]

JsNumber(s) == [t |-> "number", s |-> s]

\* ToBoolean
truthy(v) ==
  \/ v.t \in {"object", "array"}
  \/ v.t = "string" /\ v.s # <<>>
  \/ v.t = "number" /\ v.s # <<"0">>

\* v && typeof v === "object": an object or an array (null is falsy)
isObject(v) == v.t \in {"object", "array"}

DigitOf == <<"0", "1", "2", "3", "4", "5", "6", "7", "8", "9">>

\* Number.prototype.toString() of an integer.
RECURSIVE toString(_)
toString(n) ==
  IF n < 0 THEN <<"-">> \o toString(0 - n)
  ELSE IF n < 10 THEN <<DigitOf[n + 1]>>
  ELSE toString(n \div 10) \o <<DigitOf[(n % 10) + 1]>>

\* parseInt of a run of decimal digits.
RECURSIVE parseInt(_)
parseInt(d) ==
  IF d = <<>> THEN 0
  ELSE 10 * parseInt(SubSeq(d, 1, Len(d) - 1))
         + (CHOOSE v \in 0..9 : DigitOf[v + 1] = d[Len(d)])

\* An own property of an object or array whose properties are items, a
\* sequence of [k, v] (an array has the keys "0", "1", ...); undefined when
\* there is none.
property(items, key) ==
  IF \E i \in 1..Len(items) : items[i].k = key
  THEN items[CHOOSE i \in 1..Len(items) : items[i].k = key].v
  ELSE JsUndefined

NoSource == [t |-> "undefined", name |-> JsUndefined, description |-> JsUndefined]

\* An undefined document or metadata property.
NoItems == [t |-> "undefined", s |-> <<>>, items |-> <<>>]

\* An object with the properties items.
JsObject(items) == [t |-> "object", s |-> <<>>, items |-> items]

\* An array with the elements elems.
JsArray(elems) ==
  [t |-> "array", s |-> <<>>,
   items |-> [i \in 1..Len(elems) |-> [k |-> toString(i - 1), v |-> elems[i]]]]

\* Constructors of source entries.
Source(name, description) == [t |-> "object", name |-> name, description |-> description]

Entry(source, document, metadata) ==
  [t |-> "object", source |-> source, document |-> document, metadata |-> metadata]

Item(key, value) == [k |-> key, v |-> value]

MetaInfo(headings) == [t |-> "object", s |-> <<>>, headings |-> headings]

\* The filter of validateSources: TRUE for an entry that is kept.
validEntry(sourceData) ==
  /\ isObject(sourceData)
  /\ isObject(sourceData.source) =>
       /\ ~(truthy(sourceData.source.name) /\ sourceData.source.name.t # "string")
       /\ ~(truthy(sourceData.source.description)
              /\ sourceData.source.description.t # "string")
  /\ ~(truthy(sourceData.document) /\ ~isObject(sourceData.document))
  /\ ~(truthy(sourceData.metadata) /\ ~isObject(sourceData.metadata))

\* The map of validateSources: the sanitized copy of a kept entry.
sanitizeEntry(sourceData) ==
  [t |-> "object",
   source |->
     IF isObject(sourceData.source)
     THEN [t |-> "object",
           name |-> JsString(IF truthy(sourceData.source.name)
                             THEN substring(sourceData.source.name.s, SOURCE_NAME_LENGTH)
                             ELSE <<>>),
           description |-> JsString(IF truthy(sourceData.source.description)
                                    THEN substring(sourceData.source.description.s,
                                                   SOURCE_DESC_LENGTH)
                                    ELSE <<>>)]
     ELSE NoSource,
   document |-> IF truthy(sourceData.document) THEN sourceData.document ELSE NoItems,
   metadata |-> IF truthy(sourceData.metadata) THEN sourceData.metadata ELSE NoItems]

\* ChatValidators.validateSources on an array of entries.
validateSources(sources) ==
  LET kept == SelectSeq(sources, validEntry)
  IN [i \in 1..Len(kept) |-> sanitizeEntry(kept[i])]

\* ---------------------------------------------------------------------------
\* MessageRenderer: citations
\* ---------------------------------------------------------------------------
\* The markup the renderer writes, character by character.
SpanOpen ==
  <<"<", "s", "p", "a", "n", " ", "c", "l", "a", "s", "s", "=", "\"", "c",
    "i", "t", "a", "t", "i", "o", "n", "-", "l", "i", "n", "k", "\"", " ",
    "d", "a", "t", "a", "-", "c", "i", "t", "a", "t", "i", "o", "n", "=",
    "\"">>

SpanTitle ==
  <<"\"", " ", "t", "i", "t", "l", "e", "=", "\"", "C", "l", "i", "c", "k",
    " ", "t", "o", " ", "s", "e", "e", " ", "r", "e", "f", "e", "r", "e",
    "n", "c", "e", "\"", " ", "r", "o", "l", "e", "=", "\"", "b", "u", "t",
    "t", "o", "n", "\"", " ", "t", "a", "b", "i", "n", "d", "e", "x", "=",
    "\"", "0", "\"", " ", "a", "r", "i", "a", "-", "l", "a", "b", "e", "l",
    "=", "\"", "V", "i", "e", "w", " ", "r", "e", "f", "e", "r", "e", "n",
    "c", "e", " ">>

SpanClose ==
  <<"\"", ">">>

SpanEnd ==
  <<"<", "/", "s", "p", "a", "n", ">">>

ReferencesOpen ==
  <<"<", "d", "i", "v", " ", "c", "l", "a", "s", "s", "=", "\"", "r", "e",
    "f", "e", "r", "e", "n", "c", "e", "s", "-", "s", "e", "c", "t", "i",
    "o", "n", "\"", ">", "<", "h", "4", ">", "R", "e", "f", "e", "r", "e",
    "n", "c", "e", "s", ":", "<", "/", "h", "4", ">", "<", "o", "l", " ",
    "c", "l", "a", "s", "s", "=", "\"", "r", "e", "f", "e", "r", "e", "n",
    "c", "e", "s", "-", "l", "i", "s", "t", "\"", ">">>

ItemOpen ==
  <<"<", "l", "i", " ", "i", "d", "=", "\"", "r", "e", "f", "-">>

ItemClass ==
  <<"\"", " ", "c", "l", "a", "s", "s", "=", "\"", "r", "e", "f", "e", "r",
    "e", "n", "c", "e", "-", "i", "t", "e", "m", "\"", ">">>

ItemEnd ==
  <<"<", "/", "l", "i", ">">>

ReferencesEnd ==
  <<"<", "/", "o", "l", ">", "<", "/", "d", "i", "v", ">">>

StrongOpen ==
  <<"<", "s", "t", "r", "o", "n", "g", ">">>

StrongEnd ==
  <<"<", "/", "s", "t", "r", "o", "n", "g", ">">>

Dash ==
  <<" ", "-", " ">>

SectionOpen ==
  <<"<", "b", "r", ">", "<", "s", "t", "r", "o", "n", "g", ">", "S", "e",
    "c", "t", "i", "o", "n", ":", "<", "/", "s", "t", "r", "o", "n", "g",
    ">", " ">>

HeadingsJoin ==
  <<" ", "&", "g", "t", ";", " ">>

SnippetOpen ==
  <<"<", "b", "r", ">", "<", "e", "m", ">">>

SnippetEnd ==
  <<".", ".", ".", "<", "/", "e", "m", ">">>

\* ChatValidators.escapeHtml of a string
escapeHtml(unsafe) ==
  LET RECURSIVE esc(_)
      esc(i) ==
        IF i > Len(unsafe) THEN <<>>
        ELSE (CASE unsafe[i] = "&" -> <<"&", "a", "m", "p", ";">>
                [] unsafe[i] = "<" -> <<"&", "l", "t", ";">>
                [] unsafe[i] = ">" -> <<"&", "g", "t", ";">>
                [] unsafe[i] = "\"" -> <<"&", "q", "u", "o", "t", ";">>
                [] unsafe[i] = "'" -> <<"&", "#", "0", "3", "9", ";">>
                [] OTHER -> <<unsafe[i]>>) \o esc(i + 1)
  IN esc(1)

\* s.replace(/\s+/g, " ")
collapseWhitespace(s) ==
  LET Dropped == {i \in 2..Len(s) : s[i] \in Whitespace /\ s[i - 1] \in Whitespace}
      spaced == [i \in 1..Len(s) |-> IF s[i] \in Whitespace THEN " " ELSE s[i]]
  IN RemovePositions(spaced, Dropped)

\* The snippet of a document text:
\* substring(0, SNIPPET_LENGTH).replace(/[#*-]/g, "").replace(/\s+/g, " ").trim()
snippetOf(docContent) ==
  trim(collapseWhitespace(SelectSeq(substring(docContent, SNIPPET_LENGTH),
                                    LAMBDA c : c \notin {"#", "*", "-"})))

\* headings.match(/'([^']*)'/g) with the quotes sliced off each match.
RECURSIVE quotedParts(_)
quotedParts(s) ==
  LET Quotes == {i \in 1..Len(s) : s[i] = "'"}
  IN IF Quotes = {} THEN <<>>
     ELSE LET open == SetMin(Quotes)
              Closes == {j \in Quotes : j > open}
          IN IF Closes = {} THEN <<>>
             ELSE LET close == SetMin(Closes)
                  IN <<SubSeq(s, open + 1, close - 1)>>
                       \o quotedParts(SubSeq(s, close + 1, Len(s)))

\* headings.map(escapeHtml).join(" &gt; ")
RECURSIVE joinHeadings(_)
joinHeadings(headings) ==
  IF headings = <<>> THEN <<>>
  ELSE IF Len(headings) = 1 THEN escapeHtml(headings[1])
  ELSE escapeHtml(headings[1]) \o HeadingsJoin \o joinHeadings(Tail(headings))

\* MessageRenderer._formatMetadata of metaInfo, whose headings property is
\* the value headings.
formatMetadata(headings) ==
  IF truthy(headings) /\ headings # JsString(<<"[", "]">>)
  THEN LET parts ==
             IF /\ headings.t = "string"
                /\ headings.s[1] = "["
                /\ headings.s[Len(headings.s)] = "]"
             THEN quotedParts(headings.s)
             ELSE <<>>
       IN IF parts # <<>> THEN SectionOpen \o joinHeadings(parts) ELSE <<>>
  ELSE <<>>

\* The starts of the matches of /\[(\d+)\]/g in s.
markerStarts(s) == {i \in 1..Len(s) : citationEnd(s, i) # 0}

\* parseInt(match.slice(1, -1)) of the match that starts at i.
markerNumber(s, i) == parseInt(SubSeq(s, i + 1, citationEnd(s, i) - 1))

\* document[docKey] || document[citationNum - 1]
docContentOf(document, citationNum) ==
  LET byKey == property(document.items, toString(citationNum))
  IN IF truthy(byKey) THEN byKey
     ELSE property(document.items, toString(citationNum - 1))

\* if (document) ... if (docContent && typeof docContent === "string")
resolvesIn(sourceData, citationNum) ==
  /\ truthy(sourceData.document)
  /\ LET docContent == docContentOf(sourceData.document, citationNum)
     IN truthy(docContent) /\ docContent.t = "string"

\* source.name of an entry that has no source raises a TypeError.
referenceThrows(sourceData) == sourceData.source.t = "undefined"

\* The reference text built from sourceData for citationNum.
referenceTextOf(sourceData, citationNum) ==
  LET docKey == toString(citationNum)
      docContent == docContentOf(sourceData.document, citationNum)
      metaInfo == property(sourceData.metadata.items, docKey)
      snippet == snippetOf(docContent.s)
  IN StrongOpen \o escapeHtml(sourceData.source.name.s) \o StrongEnd
       \o (IF truthy(sourceData.source.description)
           THEN Dash \o escapeHtml(sourceData.source.description.s) ELSE <<>>)
       \o (IF truthy(sourceData.metadata) /\ truthy(metaInfo)
           THEN formatMetadata(metaInfo.headings) ELSE <<>>)
       \o (IF snippet # <<>> THEN SnippetOpen \o escapeHtml(snippet) \o SnippetEnd
           ELSE <<>>)

\* A visit that leaves the numbers an earlier entry resolved as they are.
visitSourceKeepFirst(sourceData, citationNumbers, citations) ==
  LET Hit == {n \in citationNumbers : resolvesIn(sourceData, n)}
  IN [n \in (DOMAIN citations) \cup Hit |->
        IF n \in DOMAIN citations THEN citations[n]
        ELSE referenceTextOf(sourceData, n)]

\* The citations object after sourceData has been visited: every number of
\* citationNumbers it resolves is (over)written.
visitSource(sourceData, citationNumbers, citations) ==
  LET Hit == {n \in citationNumbers : resolvesIn(sourceData, n)}
  IN [n \in (DOMAIN citations) \cup Hit |->
        IF n \in Hit THEN referenceTextOf(sourceData, n) ELSE citations[n]]

\* The empty citations object.
NoCitations == [n \in {} |-> <<>>]

\* MessageRenderer._extractCitationsFromSources from entry i on.
RECURSIVE extractCitationsFromSources(_, _, _, _)
extractCitationsFromSources(sources, i, citationNumbers, citations) ==
  IF i > Len(sources) THEN [threw |-> FALSE, citations |-> citations]
  ELSE IF \E n \in citationNumbers :
            resolvesIn(sources[i], n) /\ referenceThrows(sources[i])
  THEN [threw |-> TRUE, citations |-> citations]
  ELSE extractCitationsFromSources(sources, i + 1, citationNumbers,
                                   visitSource(sources[i], citationNumbers, citations))

\* <span class="citation-link" ...>[N]</span>
anchorOf(citationNum) ==
  SpanOpen \o toString(citationNum) \o SpanTitle \o toString(citationNum)
    \o SpanClose \o <<"[">> \o toString(citationNum) \o <<"]">> \o SpanEnd

\* content.replace(/\[(\d+)\]/g, ...) with the markers of the citations
\* turned into anchors, from position i on.
RECURSIVE replaceMarkers(_, _, _)
replaceMarkers(content, i, Cited) ==
  IF i > Len(content) THEN <<>>
  ELSE IF citationEnd(content, i) # 0
  THEN (IF markerNumber(content, i) \in Cited
        THEN anchorOf(markerNumber(content, i))
        ELSE SubSeq(content, i, citationEnd(content, i)))
         \o replaceMarkers(content, citationEnd(content, i) + 1, Cited)
  ELSE <<content[i]>> \o replaceMarkers(content, i + 1, Cited)

\* The keys of the citations sorted as strings: 10 before 2.
sortedAsStrings(Nums) ==
  LET Before(a, b) ==
        LET x == toString(a)
            y == toString(b)
            Diff == {i \in 1..Min(Len(x), Len(y)) : x[i] # y[i]}
        IN IF Diff = {} THEN Len(x) < Len(y)
           ELSE parseInt(<<x[SetMin(Diff)]>>) < parseInt(<<y[SetMin(Diff)]>>)
      RECURSIVE sorted(_)
      sorted(S) ==
        IF S = {} THEN <<>>
        ELSE LET first == CHOOSE a \in S : \A b \in S \ {a} : Before(a, b)
             IN <<first>> \o sorted(S \ {first})
  IN sorted(Nums)

\* Object.keys(citations).sort((a, b) => parseInt(a) - parseInt(b))
RECURSIVE sortedNums(_)
sortedNums(Nums) ==
  IF Nums = {} THEN <<>>
  ELSE <<SetMin(Nums)>> \o sortedNums(Nums \ {SetMin(Nums)})

\* MessageRenderer._buildReferencesSection
buildReferencesSection(citations) ==
  LET nums == sortedNums(DOMAIN citations)
      RECURSIVE items(_)
      items(k) ==
        IF k > Len(nums) THEN <<>>
        ELSE ItemOpen \o toString(nums[k]) \o ItemClass \o citations[nums[k]]
               \o ItemEnd \o items(k + 1)
  IN ReferencesOpen \o items(1) \o ReferencesEnd

\* referenceText.replace(/<[^>]*>/g, ""), from position i on.
RECURSIVE stripTags(_, _)
stripTags(s, i) ==
  IF i > Len(s) THEN <<>>
  ELSE LET Closes == {j \in (i + 1)..Len(s) : s[j] = ">"}
       IN IF s[i] = "<" /\ Closes # {}
          THEN stripTags(s, SetMin(Closes) + 1)
          ELSE <<s[i]>> \o stripTags(s, i + 1)

\* The end of the match of citationPattern that starts at the marker at p:
\* \s* takes the whitespace after the marker and the lazy group stops at the
\* first position from which whitespace and a marker follow, or at the end.
runEnd(content, p) ==
  LET e == citationEnd(content, p)
      NonSpace == {i \in (e + 1)..Len(content) : content[i] \notin Whitespace}
      w == IF NonSpace = {} THEN Len(content) + 1 ELSE SetMin(NonSpace)
      Stops == {q \in w..Len(content) :
                  \E m \in markerStarts(content) :
                    m >= q /\ \A i \in q..(m - 1) : content[i] \in Whitespace}
  IN [from |-> w, to |-> IF Stops = {} THEN Len(content) ELSE SetMin(Stops) - 1]

\* match[2].trim() of the match that starts at the marker at p.
runTextOf(content, p) ==
  trim(SubSeq(content, runEnd(content, p).from, runEnd(content, p).to))

\* cleanText.length > LIMITS.MIN_CITATION_LENGTH
acceptedRun(content, p) ==
  Len(trim(collapseWhitespace(stripTags(runTextOf(content, p), 1))))
    > MIN_CITATION_LENGTH

\* String.prototype.indexOf: the first position at which sub starts in s, 0
\* when there is none.
indexOf(s, sub) ==
  LET At == {i \in 1..(Len(s) - Len(sub) + 1) :
               SubSeq(s, i, i + Len(sub) - 1) = sub}
  IN IF At = {} THEN 0 ELSE SetMin(At)

\* s.replace(sub, by) with a string pattern: the first occurrence of sub is
\* replaced, wherever the match that produced sub was found.
replaceFirst(s, sub, by) ==
  LET i == indexOf(s, sub)
  IN IF i = 0 THEN s
     ELSE SubSeq(s, 1, i - 1) \o by \o SubSeq(s, i + Len(sub), Len(s))

\* The while loop of the fallback of renderCitations, with the search of
\* citationPattern starting at position lastIndex: the next match is taken;
\* an accepted one is stored under its number, the first occurrence of its
\* text in content is replaced by the anchor and the search starts again at
\* the beginning of the new content; a rejected one is skipped. The branch
\* is entered when the text has no match of /\[(\d+)\]/, and its pattern
\* starts with the same marker.
RECURSIVE fallbackLoop(_, _, _)
fallbackLoop(content, lastIndex, citations) ==
  LET Later == {p \in markerStarts(content) : p >= lastIndex}
  IN IF Later = {} THEN [content |-> content, citations |-> citations]
     ELSE LET p == SetMin(Later)
              to == runEnd(content, p).to
              citationNum == markerNumber(content, p)
          IN IF acceptedRun(content, p)
             THEN fallbackLoop(
                    replaceFirst(content, SubSeq(content, p, to),
                                 anchorOf(citationNum)),
                    1,
                    [k \in DOMAIN citations \cup {citationNum} |->
                       IF k = citationNum THEN runTextOf(content, p)
                       ELSE citations[k]])
             ELSE fallbackLoop(content, to + 1, citations)

\* The citations object the fallback leaves.
fallbackCitations(content) == fallbackLoop(content, 1, NoCitations).citations

\* content after the fallback.
fallbackContent(content) == fallbackLoop(content, 1, NoCitations).content

\* The branch renderCitations takes.
strategyOf(content, sources) ==
  LET citationNumbers == {markerNumber(content, i) : i \in markerStarts(content)}
  IN IF sources # <<>> /\ citationNumbers # {} THEN "structured"
     ELSE IF citationNumbers = {} /\ sources # <<>> THEN "fallback"
     ELSE "none"

\* A references section whatever the citations object holds.
hasCitationsAlways(citations) == TRUE

\* Object.keys(citations).length > 0
hasCitations(citations) == DOMAIN citations # {}

\* MessageRenderer.renderCitations on a bubble whose innerHTML is content:
\* whether it raised, the citations it resolved, the innerHTML it leaves, the
\* rewritten text, and the list of references in the order of the section.
renderCitations(content, sources) ==
  LET citationNumbers == {markerNumber(content, i) : i \in markerStarts(content)}
      strategy == strategyOf(content, sources)
      extracted ==
        IF strategy = "structured"
        THEN extractCitationsFromSources(sources, 1, citationNumbers, NoCitations)
        ELSE IF strategy = "fallback"
        THEN [threw |-> FALSE, citations |-> fallbackCitations(content)]
        ELSE [threw |-> FALSE, citations |-> NoCitations]
      citations == extracted.citations
      rewritten == IF strategy = "fallback" THEN fallbackContent(content)
                   ELSE content
      text == replaceMarkers(rewritten, 1, DOMAIN citations)
      nums == sortedNums(DOMAIN citations)
  IN IF extracted.threw
     THEN [threw |-> TRUE, strategy |-> strategy, innerHTML |-> content,
           text |-> content, references |-> <<>>]
     ELSE [threw |-> FALSE, strategy |-> strategy,
           innerHTML |-> IF hasCitations(citations)
                         THEN text \o buildReferencesSection(citations)
                         ELSE content,
           text |-> text,
           references |-> [k \in 1..Len(nums) |->
                             [number |-> nums[k], referenceText |-> citations[nums[k]]]]]

\* ---------------------------------------------------------------------------
\* Bounds and inputs of the model
\* ---------------------------------------------------------------------------
\* Sends (first sends and retries) per behaviour.
MaxSends == 2

\* Page reloads per behaviour.
MaxReloads == 1

\* Length of the histories handed to the pure functions.
MaxPureLen == 3

TraceNull == "null"

TraceUndefined == "undefined"

\* A key that JSON.stringify left out.
Missing == "missing"

\* lastFailedMessage = null; the handlers test it for truthiness only.
NoMessage == <<>>

UserInputs == {<<"h", "i">>, <<"h", "e", "l", "l", "o">>}

\* What ChatAPI._extractResponseData returns for the 2xx bodies of the model:
\* data.choices[0].message.content || data.response, data.traceId, and the
\* entries of data.sources before validateSources. The last body cites a
\* source entry that has a document and no source object.
Responses ==
  {[content |-> <<"O", "k", ".">>, traceId |-> TraceUndefined, sources |-> <<>>],
   [content |-> <<"O", "k", ".">>, traceId |-> "t1", sources |-> <<>>],
   [content |-> Undefined, traceId |-> TraceUndefined, sources |-> <<>>],
   [content |-> <<"[", "3", "]">>, traceId |-> TraceUndefined,
    sources |-> <<Entry(NoSource,
                        JsObject(<<Item(<<"3">>, JsString(<<"D", "D">>))>>),
                        NoItems)>>]}

Options(tokens, recent, messages) ==
  [maxHistoryTokens |-> tokens, alwaysKeepRecentMessages |-> recent,
   maxHistoryMessages |-> messages]

\* 0 stands for an option the page did not set.
WidgetOptions == {Options(0, 0, 0), Options(2, 1, 2)}

\* ---------------------------------------------------------------------------
\* State
\* ---------------------------------------------------------------------------
VARIABLES
  options,            \* ChatState._options
  isOpen,             \* ChatState._state
  history,
  unreadCount,
  hasInteracted,
  traceId,
  lastFailedMessage,
  storage,            \* sessionStorage item "universalChatState"
  inflight,           \* request bodies awaiting the transport's answer, each
                      \*   with its number and whether _handleRetry sent it
  rendering,          \* responses awaiting renderLatex, with their requests
  nextId,             \* number of the next request
  reloads,
  restored,           \* outcome of restore() in the constructor
  welcomeShown,       \* the message list shows the welcome message
  errorsShown,        \* error bubbles (each with a retry button) in the list
  destroyed,          \* destroy() has set widget.state, api and renderer to null
  callArg,            \* argument and result of the last direct call of a ChatState
  callRet,            \*   function (optimizeHistory, trimHistory, _compressMessage)
  lastOp,             \* the handler that ran last
  lastId,             \* the request that handler was about
  deployed,           \* the worker file that is deployed
  env,                \* the worker's environment variables
  rateLimitStore,     \* the worker's Map rateLimitStore
  clock,              \* Date.now() at the worker, in ticks
  served,             \* the POST requests that reached the worker's rate limiter
  pending             \* the calls of fetch that wait at an await, with the
                      \*   request each serves

vars == <<options, isOpen, history, unreadCount, hasInteracted, traceId,
          lastFailedMessage, storage, inflight, rendering, nextId, reloads,
          restored, welcomeShown, errorsShown, destroyed, callArg, callRet, lastOp,
          lastId, deployed, env, rateLimitStore, clock, served, pending>>

\* The state of the worker, which the widget never touches.
workerVars == <<deployed, env, rateLimitStore, clock, served, pending>>

\* The client addresses of the model.
ClientIPs == {"a", "b"}

\* rateLimitStore.get(key) of a key the Map does not hold.
NoEntry == [present |-> FALSE, requests |-> <<>>, lastUpdated |-> 0]

\* An environment with none of the rate limit variables set.
EnvUnset ==
  [RATE_LIMIT_REQUESTS |-> <<>>, RATE_LIMIT_WINDOW |-> <<>>,
   RATE_LIMIT_BURST |-> <<>>, configured |-> TRUE]

\* The two worker files of the repository: src/configuration.js, and the
\* later one with the allowedPaths check.
Workers == {"configuration.js", "part_004"}

\* A worker that has not served a request.
WorkerIdle ==
  /\ deployed = "configuration.js"
  /\ env = EnvUnset
  /\ rateLimitStore = [ip \in ClientIPs |-> NoEntry]
  /\ clock = 0
  /\ served = <<>>
  /\ pending = {}

\* ---------------------------------------------------------------------------
\* Persistence: ChatState.save / ChatState.restore
\* ---------------------------------------------------------------------------
\* save leaving traceId out of stateToSave.
saveWithoutTraceId(h, interacted, trace) ==
  [kind |-> "json",
   history |-> h,
   hasInteracted |-> interacted,
   traceId |-> Missing]

stringifyMessage(m) ==
  [role |-> m.role, content |-> IF m.content = Undefined THEN <<Missing>> ELSE m.content]

parseMessage(j) ==
  [role |-> j.role, content |-> IF j.content = <<Missing>> THEN Undefined ELSE j.content]

\* JSON.stringify(stateToSave): an undefined value drops its key.
save(h, interacted, trace) ==
  [kind |-> "json",
   history |-> [i \in 1..Len(h) |-> stringifyMessage(h[i])],
   hasInteracted |-> interacted,
   traceId |-> IF trace = TraceUndefined THEN Missing ELSE trace]

StorageAbsent ==
  [kind |-> "absent", history |-> <<>>, hasInteracted |-> FALSE, traceId |-> Missing]

\* A text that JSON.parse rejects, such as {not json
StorageCorrupt ==
  [kind |-> "corrupt", history |-> <<>>, hasInteracted |-> FALSE, traceId |-> Missing]

\* ChatState.restore on the fresh state of the constructor: what it returns
\* (or that it threw), the state it leaves and the item it leaves in storage
\* (update notifies the subscriber, which saves).
restore(st) ==
  IF st.kind = "json"
  THEN LET h == [i \in 1..Len(st.history) |-> parseMessage(st.history[i])]
           t == IF st.traceId \in {Missing, TraceNull} THEN TraceNull ELSE st.traceId
       IN [returned |-> "true", history |-> h, hasInteracted |-> st.hasInteracted,
           traceId |-> t, storage |-> save(h, st.hasInteracted, t)]
  ELSE [returned |-> IF st.kind = "corrupt" THEN "threw" ELSE "false",
        history |-> <<>>, hasInteracted |-> FALSE, traceId |-> TraceNull,
        storage |-> st]

\* new UniversalChatWidget(options) on a page whose session storage holds st.
Construct(st, opts) ==
  LET r == restore(st)
  IN /\ options' = opts
     /\ isOpen' = FALSE
     /\ history' = r.history
     /\ unreadCount' = 0
     /\ hasInteracted' = r.hasInteracted
     /\ traceId' = r.traceId
     /\ lastFailedMessage' = NoMessage
     /\ storage' = r.storage
     /\ inflight' = {}
     /\ rendering' = {}
     /\ restored' = r.returned
     /\ welcomeShown' = (r.returned = "false")
     /\ errorsShown' = 0
     /\ destroyed' = FALSE
     /\ callArg' = <<>>
     /\ callRet' = <<>>
     /\ UNCHANGED workerVars

Init ==
  \E st \in {StorageAbsent, StorageCorrupt} : \E opts \in WidgetOptions :
    LET r == restore(st)
    IN /\ options = opts
       /\ isOpen = FALSE
       /\ history = r.history
       /\ unreadCount = 0
       /\ hasInteracted = r.hasInteracted
       /\ traceId = r.traceId
       /\ lastFailedMessage = NoMessage
       /\ storage = r.storage
       /\ inflight = {}
       /\ rendering = {}
       /\ nextId = 1
       /\ reloads = 0
       /\ restored = r.returned
       /\ welcomeShown = (r.returned = "false")
       /\ errorsShown = 0
       /\ destroyed = FALSE
       /\ callArg = <<>>
       /\ callRet = <<>>
       /\ lastOp = "construct"
       /\ lastId = 0
       /\ WorkerIdle

\* ---------------------------------------------------------------------------
\* Handlers of UniversalChatWidget
\* ---------------------------------------------------------------------------
\* The page is loaded again: the old instance (destroyed or not) and its
\* pending handlers are gone, a new one is constructed over the same session
\* storage.
Reload ==
  /\ reloads < MaxReloads
  /\ reloads' = reloads + 1
  /\ Construct(storage, options)
  /\ lastOp' = "construct"
  /\ lastId' = 0
  /\ UNCHANGED nextId

\* UniversalChatWidget.destroy(): the button, the window and the message list
\* are removed from the page and the widget drops its ChatState, ChatAPI and
\* MessageRenderer. The session storage item stays, and so do the handlers
\* that wait for an answer: they fail on the null fields when they go on. The
\* ChatState fields keep the values the dropped object had.
destroy ==
  /\ ~destroyed
  /\ destroyed' = TRUE
  /\ welcomeShown' = FALSE
  /\ errorsShown' = 0
  /\ lastOp' = "destroy"
  /\ lastId' = 0
  /\ UNCHANGED <<options, isOpen, history, unreadCount, hasInteracted, traceId,
                 lastFailedMessage, storage, inflight, rendering, nextId, reloads,
                 restored, callArg, callRet, workerVars>>

\* A click on the chat button, which destroy() removes.
handleOpen ==
  /\ ~destroyed
  /\ isOpen' = TRUE
  /\ hasInteracted' = TRUE
  /\ unreadCount' = 0
  /\ storage' = save(history, TRUE, traceId)
  /\ lastOp' = "open"
  /\ lastId' = 0
  /\ UNCHANGED <<options, history, traceId, lastFailedMessage, inflight, rendering,
                 nextId, reloads, restored, welcomeShown, errorsShown, callArg, callRet, destroyed, workerVars>>

\* The close button or the Escape key. The key listener is on the document
\* and outlives destroy(): _handleClose then fails on this.state and nothing
\* changes.
handleClose ==
  /\ IF destroyed
     THEN /\ lastOp' = "closeThrew"
          /\ UNCHANGED <<isOpen, storage>>
     ELSE /\ isOpen' = FALSE
          /\ storage' = save(history, hasInteracted, traceId)
          /\ lastOp' = "close"
  /\ lastId' = 0
  /\ UNCHANGED <<options, history, unreadCount, hasInteracted, traceId,
                 lastFailedMessage, inflight, rendering, nextId, reloads, restored,
                 welcomeShown, errorsShown, callArg, callRet, destroyed, workerVars>>

\* The default of options.welcomeMessage.
WelcomeMessage ==
  <<"H", "e", "l", "l", "o", "!", " ", "H", "o", "w", " ", "c", "a", "n", " ",
    "I", " ", "h", "e", "l", "p", " ", "y", "o", "u", " ", "t", "o", "d", "a",
    "y", "?">>

\* A clear that stores the welcome message as an assistant entry.
handleClearStoresWelcome ==
  /\ ~destroyed
  /\ history' = <<[role |-> "assistant", content |-> WelcomeMessage]>>
  /\ storage' = save(history', hasInteracted, traceId)
  /\ welcomeShown' = TRUE
  /\ errorsShown' = 0
  /\ lastOp' = "clear"
  /\ lastId' = 0
  /\ UNCHANGED <<options, isOpen, unreadCount, hasInteracted, traceId,
                 lastFailedMessage, inflight, rendering, nextId, reloads, restored,
                 callArg, callRet, destroyed, workerVars>>

handleClear ==
  /\ ~destroyed
  /\ history' = <<>>
  /\ storage' = save(<<>>, hasInteracted, traceId)
  /\ welcomeShown' = TRUE
  /\ errorsShown' = 0
  /\ lastOp' = "clear"
  /\ lastId' = 0
  /\ UNCHANGED <<options, isOpen, unreadCount, hasInteracted, traceId,
                 lastFailedMessage, inflight, rendering, nextId, reloads, restored,
                 callArg, callRet, destroyed, workerVars>>

\* The user entry _handleSend appends before anything else.
appendUser(h, message) == Append(h, [role |-> "user", content |-> message])

\* The only test _handleSend makes before it acts: if (!message) return.
sendReturnsEarly(message) == message = <<>>

\* _handleSend up to its first await; shownBefore is the number of error
\* bubbles left by the caller, retried tells a call from _handleRetry.
sendMessage(message, shownBefore, retried) ==
  LET appended == appendUser(history, message)
      o == optimizeHistory(appended, options)
  IN /\ ~destroyed
     /\ ~sendReturnsEarly(message)
     /\ nextId <= MaxSends
     /\ nextId' = nextId + 1
     /\ history' = o.store
     /\ lastId' = nextId
     /\ IF o.threw
        THEN /\ lastFailedMessage' = message
             /\ errorsShown' = shownBefore + 1
             /\ inflight' = inflight
             /\ lastOp' = IF retried THEN "retrySendThrew" ELSE "sendThrew"
        ELSE /\ lastFailedMessage' = lastFailedMessage
             /\ errorsShown' = shownBefore
             /\ inflight' = inflight \cup {[id |-> nextId, message |-> message,
                                            history |-> o.result, traceId |-> traceId,
                                            retried |-> retried]}
             /\ lastOp' = IF retried THEN "retrySend" ELSE "send"
     /\ storage' = save(history', hasInteracted, traceId)
     /\ UNCHANGED <<options, isOpen, unreadCount, hasInteracted, traceId, rendering,
                    reloads, restored, welcomeShown, callArg, callRet, destroyed, workerVars>>

handleSend == \E message \in UserInputs : sendMessage(message, errorsShown, FALSE)

\* A click on the retry button of an error bubble, which is then removed.
handleRetry ==
  /\ ~destroyed
  /\ errorsShown > 0
  /\ IF lastFailedMessage # NoMessage
     THEN sendMessage(lastFailedMessage, errorsShown - 1, TRUE)
     ELSE /\ errorsShown' = errorsShown - 1
          /\ lastOp' = "retry"
          /\ lastId' = 0
          /\ UNCHANGED <<options, isOpen, history, unreadCount, hasInteracted,
                         traceId, lastFailedMessage, storage, inflight, rendering,
                         nextId, reloads, restored, welcomeShown, callArg, callRet, destroyed, workerVars>>

\* A failure after which the widget sends the request again by itself.
requestFailsAndRetries(r) ==
  /\ ~destroyed
  /\ r \in inflight
  /\ inflight' = inflight
  /\ lastFailedMessage' = r.message
  /\ errorsShown' = errorsShown + 1
  /\ storage' = save(history, hasInteracted, traceId)
  /\ lastOp' = "fail"
  /\ lastId' = r.id
  /\ UNCHANGED <<options, isOpen, history, unreadCount, hasInteracted, traceId,
                 rendering, nextId, reloads, restored, welcomeShown, callArg, callRet, destroyed, workerVars>>

\* The request of r fails: fetch rejects, the body is no JSON, or the status
\* is not 2xx. In a destroyed widget the catch of _handleSend fails itself on
\* this.state before it records or shows anything.
requestFails(r) ==
  /\ r \in inflight
  /\ inflight' = inflight \ {r}
  /\ IF destroyed
     THEN /\ lastOp' = "failDestroyed"
          /\ UNCHANGED <<lastFailedMessage, errorsShown, storage>>
     ELSE /\ lastFailedMessage' = r.message
          /\ errorsShown' = errorsShown + 1
          /\ storage' = save(history, hasInteracted, traceId)
          /\ lastOp' = "fail"
  /\ lastId' = r.id
  /\ UNCHANGED <<options, isOpen, history, unreadCount, hasInteracted, traceId,
                 rendering, nextId, reloads, restored, welcomeShown, callArg, callRet, destroyed, workerVars>>

\* The assistant entry put right behind the newest user entry instead.
insertAssistant(h, content) ==
  IF h = <<>> THEN <<[role |-> "assistant", content |-> content]>>
  ELSE SubSeq(h, 1, Len(h) - 1)
         \o <<[role |-> "assistant", content |-> content], h[Len(h)]>>

\* The assistant entry _handleSend adds when the response arrives.
appendAssistant(h, content) == Append(h, [role |-> "assistant", content |-> content])

\* MessageRenderer.formatMessage calls content.replace.
formatThrows(content) == content = Undefined

\* renderCitations(assistantEl, response.sources) on the bubble of content
\* raises: formatMessage rewrites & < > # * backquotes and newlines only, so
\* the markers of the content are the markers of the bubble.
citationsThrow(content, sources) == renderCitations(content, sources).threw

\* The request of r is answered 2xx: _handleSend from the await of
\* api.sendMessage to the await of renderLatex, or into its catch. In a
\* destroyed widget the first statement fails on this.state, and the catch
\* fails on it again.
responseArrives(r, content, trace, sources) ==
  /\ r \in inflight
  /\ inflight' = inflight \ {r}
  /\ IF destroyed
     THEN /\ lastOp' = "respondDestroyed"
          /\ UNCHANGED <<history, traceId, lastFailedMessage, errorsShown,
                         rendering, storage>>
     ELSE /\ history' = trimHistory(appendAssistant(history, content), options)
          /\ traceId' = trace
          /\ IF formatThrows(content)
             THEN /\ lastFailedMessage' = r.message
                  /\ errorsShown' = errorsShown + 1
                  /\ rendering' = rendering
                  /\ lastOp' = "respondThrew"
             ELSE /\ lastFailedMessage' = NoMessage
                  /\ errorsShown' = errorsShown
                  /\ rendering' = rendering \cup
                       {[id |-> r.id, message |-> r.message,
                         citationsThrow |->
                           citationsThrow(content, validateSources(sources))]}
                  /\ lastOp' = "respond"
          /\ storage' = save(history', hasInteracted, traceId')
  /\ lastId' = r.id
  /\ UNCHANGED <<options, isOpen, unreadCount, hasInteracted, nextId, reloads,
                 restored, welcomeShown, callArg, callRet, destroyed, workerVars>>

\* A rendering that counts the response as unread whether or not the window
\* is open.
finishRenderAlwaysUnread(x) ==
  /\ ~destroyed
  /\ x \in rendering
  /\ rendering' = rendering \ {x}
  /\ lastId' = x.id
  /\ IF x.citationsThrow
     THEN /\ lastFailedMessage' = x.message
          /\ errorsShown' = errorsShown + 1
          /\ unreadCount' = unreadCount
          /\ storage' = save(history, hasInteracted, traceId)
          /\ lastOp' = "renderThrew"
     ELSE /\ lastFailedMessage' = lastFailedMessage
          /\ errorsShown' = errorsShown
          /\ unreadCount' = unreadCount + 1
          /\ storage' = save(history, hasInteracted, traceId)
          /\ lastOp' = "rendered"
  /\ UNCHANGED <<options, isOpen, history, hasInteracted, traceId, inflight, nextId,
                 reloads, restored, welcomeShown, callArg, callRet, destroyed, workerVars>>

\* renderLatex resolves for the response x: the rest of _handleSend's try
\* block, or its catch when renderCitations raises. In a destroyed widget the
\* call fails on this.renderer and the catch on this.state.
finishRender(x) ==
  /\ x \in rendering
  /\ rendering' = rendering \ {x}
  /\ lastId' = x.id
  /\ IF destroyed
     THEN /\ lastOp' = "renderDestroyed"
          /\ UNCHANGED <<lastFailedMessage, errorsShown, unreadCount, storage>>
     ELSE IF x.citationsThrow
     THEN /\ lastFailedMessage' = x.message
          /\ errorsShown' = errorsShown + 1
          /\ unreadCount' = unreadCount
          /\ storage' = save(history, hasInteracted, traceId)
          /\ lastOp' = "renderThrew"
     ELSE /\ lastFailedMessage' = lastFailedMessage
          /\ errorsShown' = errorsShown
          /\ unreadCount' = IF isOpen THEN unreadCount ELSE unreadCount + 1
          /\ storage' = IF isOpen THEN storage
                        ELSE save(history, hasInteracted, traceId)
          /\ lastOp' = "rendered"
  /\ UNCHANGED <<options, isOpen, history, hasInteracted, traceId, inflight, nextId,
                 reloads, restored, welcomeShown, callArg, callRet, destroyed, workerVars>>

Next ==
  \/ Reload
  \/ destroy
  \/ handleOpen
  \/ handleClose
  \/ handleClear
  \/ handleSend
  \/ handleRetry
  \/ \E r \in inflight : requestFails(r)
  \/ \E r \in inflight : \E response \in Responses :
       responseArrives(r, response.content, response.traceId, response.sources)
  \/ \E x \in rendering : finishRender(x)

Spec == Init /\ [][Next]_vars

\* ---------------------------------------------------------------------------
\* The ChatState functions called directly on bounded inputs
\* ---------------------------------------------------------------------------
LongText == [i \in 1..(USER_MSG_LENGTH + 1) |-> "a"]

Message(role, content) == [role |-> role, content |-> content]

PureMessages ==
  {Message("user", <<"h", "i">>),
   Message("user", <<"h", "e", "l", "l", "o">>),
   Message("user", LongText),
   Message("assistant", <<"O", "k", ".", " ", "S", "e", "e", " ", "[", "1", "]">>),
   Message("assistant", <<"#", Backquote, Backquote, Backquote, "x",
                          Backquote, Backquote, Backquote>>),
   Message("assistant", LongText),
   Message("assistant", <<"H", "i", ".", "x">>),
   Message("assistant", <<"H", "i", ".", "\r", "\n">>),
   Message("system", <<"h", "e", "l", "l", "o">>)}

RECURSIVE SeqsUpTo(_, _)
SeqsUpTo(S, n) ==
  IF n = 0 THEN {<<>>}
  ELSE LET shorter == SeqsUpTo(S, n - 1)
       IN shorter \cup {Append(h, m) : h \in shorter, m \in S}

\* Histories of at most MaxPureLen messages, at most one of them long.
PureHistories ==
  {h \in SeqsUpTo(PureMessages, MaxPureLen) :
     \A i, j \in 1..Len(h) :
       (h[i].content = LongText /\ h[j].content = LongText) => i = j}

PureOptions ==
  {Options(0, 0, 0), Options(1, 1, 1), Options(3, 1, 2), Options(3, 2, 1),
   Options(130, 1, 2), Options(130, 2, 2)}

PureInit ==
  /\ options \in PureOptions
  /\ history \in PureHistories
  /\ isOpen = FALSE
  /\ unreadCount = 0
  /\ hasInteracted = FALSE
  /\ traceId = TraceNull
  /\ lastFailedMessage = NoMessage
  /\ storage = StorageAbsent
  /\ inflight = {}
  /\ rendering = {}
  /\ nextId = 1
  /\ reloads = 0
  /\ restored = "false"
  /\ welcomeShown = TRUE
  /\ errorsShown = 0
  /\ destroyed = FALSE
  /\ callArg = <<>>
  /\ callRet = <<>>
  /\ lastOp = "construct"
  /\ lastId = 0
  /\ WorkerIdle

widgetVars == <<options, isOpen, unreadCount, hasInteracted, traceId,
                lastFailedMessage, storage, inflight, rendering, nextId, reloads,
                restored, welcomeShown, errorsShown, destroyed, lastId,
                deployed, env, rateLimitStore, clock, served, pending>>

callOptimizeHistory ==
  LET o == optimizeHistory(history, options)
  IN /\ callArg' = history
     /\ callRet' = o.result
     /\ history' = o.store
     /\ lastOp' = "optimizeHistory"
     /\ UNCHANGED widgetVars

callTrimHistory ==
  /\ callArg' = history
  /\ history' = trimHistory(history, options)
  /\ callRet' = history'
  /\ lastOp' = "trimHistory"
  /\ UNCHANGED widgetVars

callCompressMessage ==
  \E i \in 1..Len(history) :
    /\ callArg' = <<history[i]>>
    /\ callRet' = <<compressMessage(history[i])>>
    /\ history' = [history EXCEPT ![i] = storedAfterCompress(history[i])]
    /\ lastOp' = "compressMessage"
    /\ UNCHANGED widgetVars

PureNext ==
  \/ callOptimizeHistory
  \/ callTrimHistory
  \/ callCompressMessage

PureSpec == PureInit /\ [][PureNext]_vars

\* ---------------------------------------------------------------------------
\* The citation functions called directly on bounded inputs
\* ---------------------------------------------------------------------------
\* Entries per sources array.
MaxSources == 2

\* Entries as the transport delivers them: well-formed ones (a document that
\* is a map, one that is an array), entries without a source object, entries
\* with wrong field types, an entry that is null, an entry that is an array
\* and an entry whose source is an array.
SourceEntries ==
  {Entry(Source(JsString(<<"A", "&", "B">>), JsString(<<"d">>)),
         JsObject(<<Item(<<"1">>, JsString(<<"A", "A", " ", "#", "x">>)),
                    Item(<<"2">>, JsString(<<"B", "B">>))>>),
         JsObject(<<Item(<<"1">>, MetaInfo(JsString(
                      <<"[", "'", "a", "'", ",", " ", "'", "b", "'", "]">>)))>>)),
   Entry(Source(JsString(<<"S">>), JsUndefined),
         JsArray(<<JsString(<<"X">>), JsString(<<"Y">>)>>), NoItems),
   Entry(Source(JsString(<<"T">>), JsUndefined),
         JsObject(<<Item(<<"1">>, JsString(<<"C", "C">>)),
                    Item(<<"1", "0">>, JsString(<<"K">>))>>), NoItems),
   Entry(NoSource, JsObject(<<Item(<<"3">>, JsString(<<"D", "D">>))>>), NoItems),
   Entry([t |-> "string", name |-> JsUndefined, description |-> JsUndefined],
         JsObject(<<Item(<<"2">>, JsString(<<"E">>))>>), NoItems),
   Entry(Source(JsNumber(<<"5">>), JsUndefined),
         JsObject(<<Item(<<"1">>, JsString(<<"F">>))>>), NoItems),
   [t |-> "null", source |-> NoSource, document |-> NoItems, metadata |-> NoItems],
   [t |-> "array", source |-> NoSource, document |-> NoItems, metadata |-> NoItems],
   Entry([t |-> "array", name |-> JsUndefined, description |-> JsUndefined],
         JsObject(<<Item(<<"1">>, JsString(<<"G">>))>>), NoItems),
   Entry(Source(JsString(<<"U">>), JsUndefined),
         [t |-> "string", s |-> <<"d", "o", "c">>, items |-> <<>>], NoItems),
   Entry(Source(JsString(<<"V">>), JsUndefined),
         JsObject(<<Item(<<"0">>, JsString(<<"z">>)),
                    Item(<<"1">>, JsNumber(<<"7">>)),
                    Item(<<"2">>, JsString(<<>>))>>), NoItems)}

\* Rendered texts: with markers, without, with a marker written with a
\* leading zero, with brackets that are no marker, and with a marker followed
\* by a text of more than MIN_CITATION_LENGTH characters.
CiteTexts ==
  {<<"S", "e", "e", " ", "[", "1", "]", " ", "a", "n", "d", " ", "[", "2", "]", ".">>,
   <<"[", "2", "]", "[", "1", "]", "[", "2", "]">>,
   <<"p", "l", "a", "i", "n">>,
   <<"[", "0", "1", "]", " ", "[", "3", "]">>,
   <<"[", "0", "]", "x", "[", "4", "]">>,
   <<"[", "a", "]", " ", "[", "1">>,
   <<"[", "3", "]">>,
   <<"[", "1", "0", "]", "[", "2", "]">>,
   <<"[", "5", "]", " ">> \o [i \in 1..(MIN_CITATION_LENGTH + 1) |-> "r"]}

CiteInit ==
  /\ options = Options(0, 0, 0)
  /\ history = <<>>
  /\ isOpen = FALSE
  /\ unreadCount = 0
  /\ hasInteracted = FALSE
  /\ traceId = TraceNull
  /\ lastFailedMessage = NoMessage
  /\ storage = StorageAbsent
  /\ inflight = {}
  /\ rendering = {}
  /\ nextId = 1
  /\ reloads = 0
  /\ restored = "false"
  /\ welcomeShown = TRUE
  /\ errorsShown = 0
  /\ destroyed = FALSE
  /\ \E content \in CiteTexts : \E sources \in SeqsUpTo(SourceEntries, MaxSources) :
       callArg = <<[content |-> content, sources |-> sources]>>
  /\ callRet = <<>>
  /\ lastOp = "construct"
  /\ lastId = 0
  /\ WorkerIdle

\* A response is rendered: renderCitations(assistantEl, response.sources),
\* the sources being those validateSources returned.
callRenderCitations ==
  /\ callRet' = <<renderCitations(callArg[1].content,
                                  validateSources(callArg[1].sources))>>
  /\ lastOp' = "renderCitations"
  /\ UNCHANGED <<history, callArg>>
  /\ UNCHANGED widgetVars

\* A restored or welcome message is rendered: renderCitations(msgEl, []).
callRenderWithoutSources ==
  /\ callRet' = <<renderCitations(callArg[1].content, <<>>)>>
  /\ lastOp' = "renderCitationsNoSources"
  /\ UNCHANGED <<history, callArg>>
  /\ UNCHANGED widgetVars

CiteNext ==
  \/ callRenderCitations
  \/ callRenderWithoutSources

CiteSpec == CiteInit /\ [][CiteNext]_vars

\* ---------------------------------------------------------------------------
\* The worker: fetch and checkRateLimit
\* ---------------------------------------------------------------------------
\* Ticks of the worker's clock per second: Date.now() is finer than the
\* seconds checkRateLimit counts in.
TicksPerSecond == 2

\* Ticks of the clock per behaviour.
MaxClock == 4

\* POST requests that reach the rate limiter per behaviour.
MaxRequests == 3

\* Calls of fetch that wait at an await at the same time.
MaxPending == 2

\* parseInt(value) || default for an environment variable that holds decimal
\* digits or is not set (<<>>): NaN and 0 both take the default.
envInt(value, default) ==
  IF value = <<>> THEN default
  ELSE IF parseInt(value) = 0 THEN default
  ELSE parseInt(value)

\* rateLimitConfig of fetch
rateLimitConfigOf(e) ==
  [requests |-> envInt(e.RATE_LIMIT_REQUESTS, 10),
   window |-> envInt(e.RATE_LIMIT_WINDOW, 60),
   burst |-> envInt(e.RATE_LIMIT_BURST, 3)]

\* Math.floor(Date.now() / 1000)
nowOf(ticks) == ticks \div TicksPerSecond

\* The clean-up loop of checkRateLimit, run when Math.random() < 0.1.
cleanedStore(store, windowStart) ==
  [ip \in DOMAIN store |->
     IF store[ip].present /\ store[ip].lastUpdated < windowStart
     THEN NoEntry ELSE store[ip]]

\* checkRateLimit(clientIP, config) at the second now, on the Map store:
\* whether the request is allowed and the Map it leaves.
checkRateLimit(store, clientIP, config, now, cleanup) ==
  LET windowStart == now - config.window
      cleaned == IF cleanup THEN cleanedStore(store, windowStart) ELSE store
      existingData == cleaned[clientIP]
      requests == IF existingData.present
                  THEN SelectSeq(existingData.requests, LAMBDA t : t > windowStart)
                  ELSE <<>>
      allowedRequests == config.requests + config.burst
  IN IF Len(requests) >= allowedRequests
     THEN [allowed |-> FALSE, store |-> cleaned]
     ELSE [allowed |-> TRUE,
           store |-> [cleaned EXCEPT ![clientIP] =
                        [present |-> TRUE, requests |-> Append(requests, now),
                         lastUpdated |-> now]]]

Request(method, path, ip, body) ==
  [method |-> method, path |-> path, ip |-> ip, body |-> body]

\* The requests of the model. body is "valid" for a JSON object with a
\* message and a model, "invalid" for a JSON object without a message, "null"
\* for the JSON text null and "notJson" for a text JSON.parse rejects.
Requests ==
  {Request("POST", "/api", "a", b) : b \in {"valid", "null", "notJson"}}
    \cup {Request("POST", "/api", "b", "invalid"),
          Request("POST", "/other", "a", "valid")}
    \cup {Request(m, "/api", "a", "valid") : m \in {"OPTIONS", "GET"}}

\* The messages array fetch builds from a request body when SYSTEM_PROMPT is
\* not set: body.history.slice(-10) followed by the current message.
messagesOf(body) ==
  sliceLast(body.history, 10) \o <<[role |-> "user", content |-> body.message]>>

Answer(status, error, forwarded) ==
  [status |-> status, error |-> error, forwarded |-> forwarded]

\* The environments of the model: a limit of 1 + 1 requests per 2 seconds,
\* and a worker without API_ENDPOINT with a limit of 1 + 0 requests per
\* second.
WorkerEnvs ==
  {[RATE_LIMIT_REQUESTS |-> <<"1">>, RATE_LIMIT_WINDOW |-> <<"2">>,
    RATE_LIMIT_BURST |-> <<"1">>, configured |-> TRUE],
   [RATE_LIMIT_REQUESTS |-> <<"1">>, RATE_LIMIT_WINDOW |-> <<"1">>,
    RATE_LIMIT_BURST |-> <<"0">>, configured |-> FALSE]}

WorkerInit ==
  /\ options = Options(0, 0, 0)
  /\ history = <<>>
  /\ isOpen = FALSE
  /\ unreadCount = 0
  /\ hasInteracted = FALSE
  /\ traceId = TraceNull
  /\ lastFailedMessage = NoMessage
  /\ storage = StorageAbsent
  /\ inflight = {}
  /\ rendering = {}
  /\ nextId = 1
  /\ reloads = 0
  /\ restored = "false"
  /\ welcomeShown = TRUE
  /\ errorsShown = 0
  /\ destroyed = FALSE
  /\ callArg = <<>>
  /\ callRet = <<>>
  /\ lastOp = "construct"
  /\ lastId = 0
  /\ deployed \in Workers
  /\ env \in WorkerEnvs
  /\ rateLimitStore = [ip \in ClientIPs |-> NoEntry]
  /\ clock = 0
  /\ served = <<>>
  /\ pending = {}

chatVars == <<options, isOpen, history, unreadCount, hasInteracted, traceId,
              lastFailedMessage, storage, inflight, rendering, nextId, reloads,
              restored, welcomeShown, errorsShown, destroyed>>

\* Time passes at the worker.
tick ==
  /\ clock < MaxClock
  /\ clock' = clock + 1
  /\ lastOp' = "tick"
  /\ UNCHANGED <<chatVars, lastId, callArg, callRet, deployed, env,
                 rateLimitStore, served, pending>>

\* The allowedPaths check of the later worker: a path other than /api takes
\* the branch that builds the 403 response, which reads corsHeaders before
\* the const is declared.
pathCheckThrows(worker, request) ==
  worker = "part_004" /\ request.path # "/api"

\* The texts in which the two workers differ.
configurationError(worker) ==
  IF worker = "part_004" THEN "Service configuration error"
  ELSE "Server configuration error"

upstreamError(worker) ==
  IF worker = "part_004" THEN "Unable to process request at this time"
  ELSE "External API error"

\* The promise of fetch is not settled: the call waits at an await.
Awaiting == Answer("pending", <<>>, FALSE)

\* The generic answer of the catch block.
Unavailable(forwarded) ==
  Answer("500", <<"Service temporarily unavailable">>, forwarded)

\* The answer of the catch block to a SyntaxError of JSON.parse.
InvalidFormat(forwarded) ==
  Answer("502", <<"Invalid response format">>, forwarded)

\* fetch(request, env) up to its first await, that of checkRateLimit: the
\* path check, the preflight, the method check and the call of
\* checkRateLimit, which reads and writes the Map before it returns its
\* promise. cleanup is the outcome of Math.random() < 0.1 in checkRateLimit.
\* The call answers at once or waits for the promise, counted and not
\* answered.
fetch(request, cleanup) ==
  LET limit == checkRateLimit(rateLimitStore, request.ip, rateLimitConfigOf(env),
                              nowOf(clock), cleanup)
      limited == /\ ~pathCheckThrows(deployed, request)
                 /\ request.method = "POST"
      answer ==
        IF pathCheckThrows(deployed, request)
        THEN Answer("threw", <<"ReferenceError">>, FALSE)
        ELSE IF request.method = "OPTIONS"
        THEN Answer("200", <<>>, FALSE)
        ELSE IF request.method # "POST"
        THEN Answer("405", <<"Method not allowed">>, FALSE)
        ELSE Awaiting
  IN /\ limited => /\ Len(served) < MaxRequests
                    /\ Cardinality(pending) < MaxPending
     /\ callArg' = <<request>>
     /\ callRet' = <<answer>>
     /\ rateLimitStore' = IF limited THEN limit.store ELSE rateLimitStore
     /\ served' = IF limited
                  THEN Append(served, [ip |-> request.ip, at |-> clock,
                                       passed |-> limit.allowed])
                  ELSE served
     /\ pending' = IF limited
                   THEN pending \cup {[id |-> Len(served'), request |-> request,
                                       stage |-> "limiter"]}
                   ELSE pending
     /\ lastOp' = "fetch"
     /\ lastId' = IF limited THEN Len(served') ELSE 0
     /\ UNCHANGED <<chatVars, deployed, env, clock>>

\* The pending call p answers.
answers(p, answer) ==
  /\ pending' = pending \ {p}
  /\ callArg' = <<p.request>>
  /\ callRet' = <<answer>>
  /\ lastId' = p.id

\* The pending call p goes on to its next await.
awaits(p, stage) ==
  /\ pending' = (pending \ {p}) \cup {[p EXCEPT !.stage = stage]}
  /\ callArg' = <<p.request>>
  /\ callRet' = <<Awaiting>>
  /\ lastId' = p.id

\* The promise of checkRateLimit is taken up by the pending call p: fetch
\* from there to the await of request.json(). A refused request is answered
\* 429, a worker without API_ENDPOINT or API_KEY answers 500.
fetchRateLimited(p) ==
  /\ p \in pending
  /\ p.stage = "limiter"
  /\ IF ~served[p.id].passed
     THEN answers(p, Answer("429", <<"Rate limit exceeded. Please try again later.">>,
                            FALSE))
     ELSE IF ~env.configured
     THEN answers(p, Answer("500", <<configurationError(deployed)>>, FALSE))
     ELSE awaits(p, "body")
  /\ lastOp' = "fetchRateLimited"
  /\ UNCHANGED <<chatVars, deployed, env, rateLimitStore, clock, served>>

\* request.json() settles for the pending call p; read tells whether the
\* body could be read. fetch from there to the await of the call of the API.
\* A body that cannot be read rejects with an error the catch does not know.
\* A text that is no JSON rejects with a SyntaxError, whose message names
\* JSON. A body of null passes the parse; the later worker then reads
\* body.message for its log line before it tests body, which throws a
\* TypeError, the other one answers 400.
fetchBodyParsed(p, read) ==
  /\ p \in pending
  /\ p.stage = "body"
  /\ IF ~read THEN answers(p, Unavailable(FALSE))
     ELSE IF p.request.body = "notJson" THEN answers(p, InvalidFormat(FALSE))
     ELSE IF p.request.body = "null"
     THEN IF deployed = "part_004" THEN answers(p, Unavailable(FALSE))
          ELSE answers(p, Answer("400", <<"Invalid request body">>, FALSE))
     ELSE IF p.request.body = "invalid"
     THEN answers(p, Answer("400", <<"Invalid message">>, FALSE))
     ELSE awaits(p, "upstream")
  /\ lastOp' = "fetchBodyParsed"
  /\ UNCHANGED <<chatVars, deployed, env, rateLimitStore, clock, served>>

\* The call of the API settles for the pending call p: it rejects, or it
\* resolves with response.ok false or true. On a response that is not ok the
\* later worker throws at once; the other one first awaits response.text().
fetchUpstreamSettled(p, outcome) ==
  /\ p \in pending
  /\ p.stage = "upstream"
  /\ IF outcome = "rejects" THEN answers(p, Unavailable(TRUE))
     ELSE IF outcome = "ok" THEN awaits(p, "json")
     ELSE IF deployed = "part_004"
     THEN answers(p, Answer("502", <<upstreamError(deployed)>>, TRUE))
     ELSE awaits(p, "text")
  /\ lastOp' = "fetchUpstreamSettled"
  /\ UNCHANGED <<chatVars, deployed, env, rateLimitStore, clock, served>>

\* What reading the body of the API's response can come to: a JSON value
\* other than null, the JSON value null, a text that is no JSON, or a body
\* stream that fails.
BodyOutcomes == {"value", "null", "notJson", "fails"}

\* response.json() or response.text() settles for the pending call p.
\* response.json() resolves with the value, where reading data.choices of
\* null throws a TypeError, or rejects with a SyntaxError, whose message names
\* JSON, or with the error of the stream, which the catch does not know.
\* response.text() resolves with any text and rejects only with the error of
\* the stream.
fetchUpstreamRead(p, outcome) ==
  /\ p \in pending
  /\ p.stage \in {"json", "text"}
  /\ IF outcome = "fails" THEN answers(p, Unavailable(TRUE))
     ELSE IF p.stage = "text"
     THEN answers(p, Answer("502", <<upstreamError(deployed)>>, TRUE))
     ELSE IF outcome = "notJson" THEN answers(p, InvalidFormat(TRUE))
     ELSE IF outcome = "null" THEN answers(p, Unavailable(TRUE))
     ELSE answers(p, Answer("200", <<>>, TRUE))
  /\ lastOp' = "fetchUpstreamRead"
  /\ UNCHANGED <<chatVars, deployed, env, rateLimitStore, clock, served>>

WorkerNext ==
  \/ tick
  \/ \E request \in Requests : \E cleanup \in BOOLEAN : fetch(request, cleanup)
  \/ \E p \in pending : fetchRateLimited(p)
  \/ \E p \in pending : \E read \in BOOLEAN : fetchBodyParsed(p, read)
  \/ \E p \in pending : \E outcome \in {"rejects", "notOk", "ok"} :
       fetchUpstreamSettled(p, outcome)
  \/ \E p \in pending : \E outcome \in BodyOutcomes : fetchUpstreamRead(p, outcome)

WorkerSpec == WorkerInit /\ [][WorkerNext]_vars

\* ---------------------------------------------------------------------------
\* Properties
\* ---------------------------------------------------------------------------
\* The configured limits, with the defaults of LIMITS for unset options.
Cap == IF options.maxHistoryMessages = 0 THEN MAX_HISTORY_MESSAGES
       ELSE options.maxHistoryMessages

Budget == IF options.maxHistoryTokens = 0 THEN MAX_HISTORY_TOKENS
          ELSE options.maxHistoryTokens

KeepRecent == IF options.alwaysKeepRecentMessages = 0 THEN ALWAYS_KEEP_RECENT
              ELSE options.alwaysKeepRecentMessages

\* The last n entries of h, for n <= Len(h).
LastN(h, n) == [i \in 1..n |-> h[Len(h) - n + i]]

TokenSum(msgs) ==
  LET RECURSIVE total(_)
      total(i) == IF i = 0 THEN 0
                  ELSE total(i - 1)
                         + (IF msgs[i].content \in {Undefined, <<>>} THEN 0
                            ELSE (Len(msgs[i].content) + 3) \div 4)
  IN total(Len(msgs))

\* C1 (as claimed): in every reachable state of the widget the stored history
\* holds at most maxHistoryMessages entries.  _handleSend appends the user
\* message without trimming, so a history at the cap grows past it.
C1_HistoryWithinCap == Len(history) <= Cap

\* C2 (as claimed): when the session-storage item is corrupt, restore() returns
\* false, the history stays empty, no exception escapes and the constructor
\* goes on to show the welcome message.  JSON.parse throws out of restore().
C2_CorruptSnapshotIsAbsent ==
  (lastOp = "construct" /\ storage.kind = "corrupt")
    => (restored = "false" /\ history = <<>> /\ welcomeShown)

\* C3 (as claimed): the view returned by optimizeHistory has a summed token
\* estimate of at most maxHistoryTokens, or it is the full history.
C3_BudgetOrFullHistory ==
  lastOp = "optimizeHistory" => (TokenSum(callRet) <= Budget \/ callRet = callArg)

\* C3 (amended): the view returned by optimizeHistory has a summed token
\* estimate of at most maxHistoryTokens, or it is exactly the recent window:
\* the last min(alwaysKeepRecentMessages, |H|) messages of H, unchanged.
C3_BudgetOrRecentWindow ==
  lastOp = "optimizeHistory"
    => \/ TokenSum(callRet) <= Budget
       \/ callRet = LastN(callArg, Min(KeepRecent, Len(callArg)))

\* optimizeHistory returned a recent window that is over budget and shorter
\* than the history.
C3_Witness ==
  /\ lastOp = "optimizeHistory"
  /\ TokenSum(callRet) > Budget
  /\ Len(callRet) < Len(callArg)

\* C4: the last min(alwaysKeepRecentMessages, |H|) messages of H are the
\* trailing entries of optimizeHistory's result, with the same role and content
\* and in the same order, also when they alone exceed maxHistoryTokens.
C4_RecentVerbatim ==
  lastOp = "optimizeHistory"
    => LET n == Min(KeepRecent, Len(callArg))
       IN /\ Len(callRet) >= n
          /\ LastN(callRet, n) = LastN(callArg, n)

\* optimizeHistory ran on a history with older messages whose recent window
\* alone exceeds the budget.
C4_Witness ==
  /\ lastOp = "optimizeHistory"
  /\ Len(callArg) > KeepRecent
  /\ TokenSum(LastN(callArg, KeepRecent)) > Budget

\* A response step: the request r leaves inflight and the handler ran to the
\* append of the assistant entry.
C5_ResponseStep ==
  \A r \in inflight :
    (r \notin inflight' /\ lastOp' \in {"respond", "respondThrew"} /\ lastId' = r.id)
      => /\ inflight' = inflight \ {r}
         /\ Len(history') >= 1
         /\ history'[Len(history')].role = "assistant"
         /\ Len(history') - 1 <= Len(history)
         /\ SubSeq(history', 1, Len(history') - 1) = LastN(history, Len(history') - 1)

\* A send step while requests are in flight: the new request joins them.
C5_SendStep ==
  (lastOp' = "send" /\ nextId' = nextId + 1)
    => /\ inflight \subseteq inflight'
       /\ Cardinality(inflight') = Cardinality(inflight) + 1
       /\ history'[Len(history')].role = "user"

\* C5: a send made while another request is in flight is neither rejected,
\* queued nor cancelled (_handleSend does not return early for it, it adds its
\* request to those in flight, and an answer removes only the answered
\* request), and each response is appended at the end of the stored history
\* when it arrives, whatever the order of the sends.
C5_OverlappingSends ==
  [][/\ (inflight # {} => \A m \in UserInputs : ~sendReturnsEarly(m))
     /\ C5_ResponseStep
     /\ C5_SendStep]_vars

\* Two requests were in flight together, the second was answered first and
\* the first last: the history ends with the two assistant entries.
C5_Witness ==
  /\ lastOp = "respond"
  /\ lastId = 1
  /\ nextId > 2
  /\ inflight = {}
  /\ Len(history) = 4
  /\ history[1].role = "user" /\ history[2].role = "user"
  /\ history[3].role = "assistant" /\ history[4].role = "assistant"

\* C6: in every state, constructing a new widget over the current session
\* storage yields the history, hasInteracted and traceId the widget has (a
\* traceId that is undefined is written as no key and read back as null: both
\* are the absence of a trace id).
C6_ReloadRestoresState ==
  LET r == restore(storage)
  IN /\ r.history = history
     /\ r.hasInteracted = hasInteracted
     /\ r.traceId = (IF traceId = TraceUndefined THEN TraceNull ELSE traceId)

\* A reloaded widget that restored messages, the interaction flag and a
\* trace id.
C6_Witness ==
  /\ lastOp = "construct"
  /\ reloads > 0
  /\ restored = "true"
  /\ history # <<>>
  /\ hasInteracted
  /\ traceId = "t1"

\* C7: trimHistory on a history of length n leaves exactly the last
\* min(n, maxHistoryMessages) entries in their order, changes nothing when
\* n <= maxHistoryMessages, and trimming the result again changes nothing.
C7_TrimKeepsNewest ==
  lastOp = "trimHistory"
    => /\ callRet = LastN(callArg, Min(Len(callArg), Cap))
       /\ (Len(callArg) <= Cap => callRet = callArg)
       /\ history = callRet
       /\ trimHistory(callRet, options) = callRet

\* trimHistory ran on a history longer than the cap.
C7_Witness ==
  /\ lastOp = "trimHistory"
  /\ Len(callArg) > Cap
  /\ Len(callRet) = Cap

\* C8 (as claimed): restoring a snapshot whose history has more than
\* maxHistoryMessages entries leaves at most maxHistoryMessages entries in the
\* store.  restore() replays the snapshot and never trims.
C8_RestoreWithinCap ==
  (lastOp = "construct" /\ restored = "true") => Len(history) <= Cap

\* C9: a call of optimizeHistory or of _compressMessage leaves the stored
\* history as it was: same length, same role and content in every entry.
C9_OptimizeLeavesStore ==
  [][lastOp' \in {"optimizeHistory", "compressMessage"} => history' = history]_vars

\* optimizeHistory returned a view in which an older message is compressed to
\* something else than the stored one.
C9_Witness ==
  /\ lastOp = "optimizeHistory"
  /\ Len(callRet) = Len(callArg)
  /\ callRet # callArg
  /\ history = callArg

\* C10 (as claimed): the compressed message has the role of the message.
\* _compressMessage answers role "assistant" for every role but "user".
C10_CompressKeepsRole ==
  lastOp = "compressMessage" => callRet[1].role = callArg[1].role

\* C11: a clear leaves the stored history (in memory and in the persisted
\* snapshot) empty and hasInteracted as it was, and the welcome message it
\* shows is not an entry of the stored history.
C11_ClearEmptiesHistory ==
  [][lastOp' = "clear" =>
       /\ history' = <<>>
       /\ storage'.kind = "json" /\ storage'.history = <<>>
       /\ hasInteracted' = hasInteracted
       /\ storage'.hasInteracted = hasInteracted
       /\ welcomeShown'
       /\ \A i \in 1..Len(history') : history'[i].content # WelcomeMessage]_vars

\* A clear of a non-empty history by a user who had opened the window.
C11_Witness ==
  /\ lastOp = "clear"
  /\ history = <<>>
  /\ hasInteracted
  /\ welcomeShown
  /\ nextId > 1

\* C12: for every array of source entries the transport delivers, validation
\* followed by citation resolution raises no error, and no entry without a
\* source object (or with a wrongly typed field) is left for the lookup.
C12_MalformedSourcesDropped ==
  lastOp = "renderCitations" =>
    /\ ~callRet[1].threw
    /\ \A i \in 1..Len(validateSources(callArg[1].sources)) :
         validateSources(callArg[1].sources)[i].source.t = "object"

\* The numbers of the markers of content for which one of the validated
\* sources holds a document text.
ResolvedNumbers(content, sources) ==
  {n \in {markerNumber(content, i) : i \in markerStarts(content)} :
     \E k \in 1..Len(sources) : resolvesIn(sources[k], n)}

\* content with the markers whose number is in R written as anchors and
\* everything else left as it is, from position i on.
RECURSIVE Anchored(_, _, _)
Anchored(content, i, R) ==
  LET Later == {p \in markerStarts(content) : p >= i}
  IN IF Later = {} THEN SubSeq(content, i, Len(content))
     ELSE LET p == SetMin(Later)
              e == citationEnd(content, p)
              n == parseInt(SubSeq(content, p + 1, e - 1))
          IN SubSeq(content, i, p - 1)
               \o (IF n \in R THEN anchorOf(n) ELSE SubSeq(content, p, e))
               \o Anchored(content, e + 1, R)

\* The positions of html at which sub starts.
Occurrences(html, sub) ==
  {i \in 1..(Len(html) - Len(sub) + 1) : SubSeq(html, i, i + Len(sub) - 1) = sub}

\* C13: when citation resolution of a message completes, the references list
\* has exactly one entry per resolved citation number, in ascending order;
\* every marker of a resolved number is an anchor for that number, whose entry
\* ref-N is in the list, and every other marker is left as plain text.
C13_CitationsAnchored ==
  (lastOp = "renderCitations" /\ ~callRet[1].threw) =>
    LET content == callArg[1].content
        R == ResolvedNumbers(content, validateSources(callArg[1].sources))
        r == callRet[1]
    IN /\ Len(r.references) = Cardinality(R)
       /\ {r.references[k].number : k \in 1..Len(r.references)} = R
       /\ \A j, k \in 1..Len(r.references) :
            j < k => r.references[j].number < r.references[k].number
       /\ r.text = Anchored(content, 1, R)
       /\ SubSeq(r.innerHTML, 1, Len(r.text)) = r.text
       /\ Cardinality(Occurrences(r.innerHTML, ItemOpen)) = Cardinality(R)
       /\ \A n \in R :
            Occurrences(r.innerHTML, ItemOpen \o toString(n) \o ItemClass) # {}

\* A text with a marker that resolves (written with a leading zero) and one
\* that does not.
C13_Witness ==
  /\ lastOp = "renderCitations"
  /\ ~callRet[1].threw
  /\ callArg[1].content = <<"[", "0", "1", "]", " ", "[", "3", "]">>
  /\ Len(callRet[1].references) = 1
  /\ callRet[1].references[1].number = 1
  /\ Occurrences(callRet[1].text, anchorOf(1)) = {1}
  /\ Occurrences(callRet[1].text, <<"[", "3", "]">>) # {}

\* The sources renderCitations was handed in the last call.
SourcesUsed ==
  IF lastOp = "renderCitations" THEN validateSources(callArg[1].sources) ELSE <<>>

\* C14: when no citation resolves (no marker in the text, no sources, or no
\* source with a document text for a marker of the text), citation resolution
\* leaves the text as it was, with no reference and no references section.
C14_NothingResolvedNothingChanged ==
  (/\ lastOp \in {"renderCitations", "renderCitationsNoSources"}
   /\ ResolvedNumbers(callArg[1].content, SourcesUsed) = {}) =>
    /\ ~callRet[1].threw
    /\ callRet[1].innerHTML = callArg[1].content
    /\ callRet[1].text = callArg[1].content
    /\ callRet[1].references = <<>>
    /\ Occurrences(callRet[1].innerHTML, ReferencesOpen) = {}

\* A text with markers and sources with documents, none of which holds a
\* text for a marker.
C14_Witness ==
  /\ lastOp = "renderCitations"
  /\ markerStarts(callArg[1].content) # {}
  /\ \E k \in 1..Len(SourcesUsed) : truthy(SourcesUsed[k].document)
  /\ ResolvedNumbers(callArg[1].content, SourcesUsed) = {}
  /\ callRet[1].innerHTML = callArg[1].content
  /\ callRet[1].references = <<>>

\* The document value a marker [n] stands for: the nth element of an array
\* (index n - 1), the value under the key n of a map.
CitedValue(document, n) ==
  IF document.t = "array"
  THEN IF 1 <= n /\ n <= Len(document.items) THEN document.items[n].v ELSE JsUndefined
  ELSE property(document.items, toString(n))

\* C15: with one source whose document is an array, a marker [N] with
\* 1 <= N <= length resolves to the array's Nth element (index N - 1) when
\* that element is a non-empty string; with a document that is a map, it
\* resolves to the value stored under the key N.
C15_NthElementResolves ==
  (lastOp = "renderCitations" /\ ~callRet[1].threw /\ Len(SourcesUsed) = 1) =>
    \A n \in {markerNumber(callArg[1].content, i) :
                i \in markerStarts(callArg[1].content)} :
      LET cited == CitedValue(SourcesUsed[1].document, n)
      IN (cited.t = "string" /\ cited.s # <<>>) =>
           \E k \in 1..Len(callRet[1].references) :
             /\ callRet[1].references[k].number = n
             /\ Occurrences(callRet[1].references[k].referenceText,
                            SnippetOpen \o escapeHtml(snippetOf(cited.s))
                              \o SnippetEnd) # {}

\* The steps in which a send ends in the catch of _handleSend.
FailureOps == {"fail", "respondThrew", "renderThrew", "sendThrew", "retrySendThrew"}

configuredValue(value, default) == IF value = <<>> THEN default ELSE parseInt(value)

\* The steps in which a call of fetch that the rate limiter counted goes on.
WorkerAnswerOps ==
  {"fetchRateLimited", "fetchBodyParsed", "fetchUpstreamSettled", "fetchUpstreamRead"}

\* Requests of one client the worker let through in the span of
\* RATE_LIMIT_WINDOW seconds that ends with request i.
PassedInSpan(i) ==
  {j \in 1..i :
     /\ served[j].passed
     /\ served[j].ip = served[i].ip
     /\ served[i].at - served[j].at
          < configuredValue(env.RATE_LIMIT_WINDOW, 60) * TicksPerSecond}

\* C17 (as claimed): for each client IP, at most RATE_LIMIT_REQUESTS +
\* RATE_LIMIT_BURST POST requests are let through within any span of
\* RATE_LIMIT_WINDOW seconds, and a request that is not let through is
\* answered 429 and is not forwarded.
C17_RateLimitPerClient ==
  /\ \A i \in 1..Len(served) :
       served[i].passed =>
         Cardinality(PassedInSpan(i))
           <= configuredValue(env.RATE_LIMIT_REQUESTS, 10)
                + configuredValue(env.RATE_LIMIT_BURST, 3)
  /\ (lastOp \in WorkerAnswerOps /\ callRet[1] # Awaiting
        /\ ~served[lastId].passed)
       => (callRet[1].status = "429" /\ ~callRet[1].forwarded)

\* C18 (as claimed): a request whose URL path is not /api is answered 403 with
\* the path-not-allowed error, is not counted by the rate limiter and is not
\* forwarded. The 403 branch of fetch reads corsHeaders before its declaration.
C18_OtherPathsForbidden ==
  [][(lastOp' = "fetch" /\ callArg'[1].path # "/api")
       => /\ callRet'[1].status = "403"
          /\ callRet'[1].error = <<"Path not allowed. Only /api is accessible.">>
          /\ ~callRet'[1].forwarded
          /\ rateLimitStore' = rateLimitStore]_vars


\* The entries of optimizeHistory's result before the verbatim recent window.
OlderPart == SubSeq(callRet, 1, Len(callRet) - Min(KeepRecent, Len(callArg)))

\* C19: the compressed older messages in the result of optimizeHistory have a
\* summed token estimate of at most maxHistoryTokens, or the result has no
\* older message.
C19_OlderPartWithinBudget ==
  lastOp = "optimizeHistory"
    => (OlderPart = <<>> \/ TokenSum(OlderPart) <= Budget)

\* optimizeHistory included some older messages and dropped others for the
\* budget.
C19_Witness ==
  /\ lastOp = "optimizeHistory"
  /\ Len(OlderPart) >= 1
  /\ Len(callRet) < Len(callArg)
  /\ TokenSum(OlderPart) > 0

\* The message of the history that entry k of the result stands for, when the
\* result is a suffix of the history.
StoredIndex(k) == Len(callArg) - Len(callRet) + k

\* C20: the result of optimizeHistory corresponds entry by entry to a
\* contiguous suffix of the history, the recent window verbatim and the older
\* entries compressed, and when the suffix is not the whole history the newest
\* message left out did not fit what was left of the budget.
C20_ContiguousSuffix ==
  lastOp = "optimizeHistory"
    => /\ Len(callRet) <= Len(callArg)
       /\ \A k \in 1..Len(callRet) :
            callRet[k] = IF k > Len(OlderPart) THEN callArg[StoredIndex(k)]
                         ELSE compressMessage(callArg[StoredIndex(k)])
       /\ Len(callRet) < Len(callArg)
            => TokenSum(callRet) + TokenSum(<<compressMessage(callArg[StoredIndex(0)])>>)
                 > Budget

\* optimizeHistory stopped at a message that did not fit although an older
\* message of the history would have fitted the remaining budget.
C20_Witness ==
  /\ lastOp = "optimizeHistory"
  /\ Len(callRet) < Len(callArg)
  /\ \E i \in 1..(StoredIndex(0) - 1) :
       TokenSum(callRet) + TokenSum(<<compressMessage(callArg[i])>>) <= Budget


\* The entries of sources that hold a document text for citation number n.
HoldersOf(sources, n) == {k \in 1..Len(sources) : resolvesIn(sources[k], n)}

\* C21: when several entries of sources hold a document text for the same
\* citation number, the reference text of that number is built from the last
\* of them in the order of sources.
C21_LastSourceWins ==
  (lastOp = "renderCitations" /\ ~callRet[1].threw) =>
    LET sources == validateSources(callArg[1].sources)
        r == callRet[1]
    IN \A k \in 1..Len(r.references) :
         LET n == r.references[k].number
             last == CHOOSE x \in HoldersOf(sources, n) :
                       \A y \in HoldersOf(sources, n) : y <= x
         IN /\ HoldersOf(sources, n) # {}
            /\ r.references[k].referenceText = referenceTextOf(sources[last], n)
            /\ Occurrences(r.innerHTML,
                           ItemOpen \o toString(n) \o ItemClass
                             \o referenceTextOf(sources[last], n) \o ItemEnd) # {}

\* Two entries hold different texts for citation 1, and the reference shows
\* the text of the second (CC of source T) and not that of the first.
C21_Witness ==
  /\ lastOp = "renderCitations"
  /\ ~callRet[1].threw
  /\ Len(callArg[1].sources) = 2
  /\ Cardinality(HoldersOf(validateSources(callArg[1].sources), 1)) = 2
  /\ Len(callRet[1].references) >= 1
  /\ callRet[1].references[1].number = 1
  /\ Occurrences(callRet[1].references[1].referenceText, <<"C", "C">>) # {}
  /\ Occurrences(callRet[1].references[1].referenceText, <<"A", "A">>) = {}


\* C22: the compressed content of a user message is the first 500 characters
\* of its content, so no longer than it; the compressed content of any other
\* message is at most 3 characters longer than its cleaned text.
C22_CompressionLength ==
  lastOp = "compressMessage" =>
    LET m == callArg[1]
        c == callRet[1].content
    IN IF m.role = "user"
       THEN /\ Len(c) <= Len(m.content)
            /\ c = SubSeq(m.content, 1, Min(USER_MSG_LENGTH, Len(m.content)))
       ELSE Len(c) <= Len(cleanContent(m.content)) + 3

\* A user message was cut to 500 characters.
C22_Witness ==
  /\ lastOp = "compressMessage"
  /\ callArg[1].role = "user"
  /\ Len(callArg[1].content) > USER_MSG_LENGTH
  /\ Len(callRet[1].content) = USER_MSG_LENGTH

\* C30 (as claimed): the token estimate of the compressed content is at most
\* the token estimate of the content of the message.
C30_CompressionNeverCostsMore ==
  lastOp = "compressMessage" =>
    TokenSum(<<callRet[1]>>) <= TokenSum(<<callArg[1]>>)


UserEntry(message) == [role |-> "user", content |-> message]

\* C24 (as claimed): when the response to a retry of message m arrives, the
\* history ends with one user entry m followed by the assistant entry: the
\* entry before that user entry is not the user entry m of the failed send.
C24_RetryKeepsOneUserEntry ==
  [][\A r \in inflight :
       (r.retried /\ lastOp' = "respond" /\ lastId' = r.id) =>
         LET n == Len(history')
         IN /\ n >= 2
            /\ history'[n].role = "assistant"
            /\ history'[n - 1] = UserEntry(r.message)
            /\ n >= 3 => history'[n - 2] # UserEntry(r.message)]_vars


\* C25 (as claimed): the step that completes the request r either appends one
\* assistant entry and leaves lastFailedMessage null without reporting an
\* error, or reports the error, sets lastFailedMessage to the sent message and
\* leaves the history as it was; and the rendering that follows an appended
\* entry reports no error.
C25_OneOutcomePerSend ==
  [][/\ \A r \in inflight :
          (r \notin inflight' /\ lastId' = r.id) =>
            \/ /\ Len(history') >= 1
               /\ history'[Len(history')].role = "assistant"
               /\ lastFailedMessage' = NoMessage
               /\ errorsShown' = errorsShown
            \/ /\ errorsShown' = errorsShown + 1
               /\ lastFailedMessage' = r.message
               /\ history' = history
     /\ \A x \in rendering :
          (x \notin rendering' /\ lastId' = x.id /\ lastOp' # "construct") =>
            /\ errorsShown' = errorsShown
            /\ lastFailedMessage' = lastFailedMessage]_vars


\* C26 (as claimed): a response that arrives right after a clear, for a
\* request sent before it, is not appended: the history stays empty.
C26_ClearDropsPendingResponses ==
  [][lastOp = "clear" =>
       \A r \in inflight :
         (r \notin inflight' /\ lastId' = r.id /\ lastOp' # "construct")
           => history' = <<>>]_vars


\* C27 (as claimed): the history of a request that a send issues does not
\* end with the message being sent, unless the stored history ended with that
\* message before the send; so the entry before the current message in the
\* worker's messages array is not the current message again.
C27_MessageSentOnce ==
  [][\A r \in inflight' \ inflight :
       (history = <<>> \/ history[Len(history)] # UserEntry(r.message)) =>
         /\ r.history = <<>> \/ r.history[Len(r.history)] # UserEntry(r.message)
         /\ LET messages == messagesOf(r)
            IN Len(messages) >= 2
                 => messages[Len(messages) - 1] # UserEntry(r.message)]_vars


TraceIds == {"t1"}

\* C28 (as claimed): once the widget holds a trace id, a response that
\* carries none leaves the stored and the persisted trace id as they are; the
\* trace id changes only to one a response carries.
C28_TraceIdKept ==
  [][(traceId \in TraceIds)
       => (traceId' \in TraceIds /\ storage'.traceId \in TraceIds)]_vars

\* C29: every step leads to a state in which unreadCount is 0 if the window is
\* open (the window is closed initially); unreadCount grows only by one and
\* only when a response is rendered while the window is closed, and opening
\* the window resets it to 0.
C29_NoUnreadWhileOpen ==
  [][/\ (isOpen => unreadCount = 0) /\ (isOpen' => unreadCount' = 0)
     /\ (unreadCount' > unreadCount)
          => (unreadCount' = unreadCount + 1 /\ lastOp' = "rendered"
                /\ ~isOpen /\ ~isOpen')
     /\ (lastOp' = "rendered" /\ ~isOpen) => (unreadCount' = unreadCount + 1)
     /\ (lastOp' = "open") => (isOpen' /\ unreadCount' = 0)]_vars

\* The second response was rendered while the window was open, after the
\* window had been opened with the first counted as unread: nothing is unread.
C29_Witness ==
  /\ lastOp = "rendered"
  /\ lastId = 2
  /\ isOpen
  /\ unreadCount = 0
  /\ Len(history) = 4

====
